---- MODULE Spec2Model ----
(***************************************************************************)
(* Model of wasm-dwarf-parser: the WebAssembly section scanner (wasm.rs),  *)
(* the path normaliser (path.rs) and the line table resolver (main.rs).    *)
(* Strings are sequences of one-character strings, byte buffers are         *)
(* sequences of naturals in 0..255.                                         *)
(***************************************************************************)
EXTENDS Integers, Sequences, FiniteSets, TLC

VARIABLES
  \* path.rs: struct Path(Cow<str>) and the fragment last pushed
  path, p2, npush,
  \* wasm.rs / main.rs 55-75: the module buffer, the reader and the scan result
  src, reader, scan_pc, code_section_offset, sections, scan_result,
  \* the parts src was assembled from, and the number of sections yielded
  module, nsections,
  \* main.rs 82-204: the resolver
  pc, lang, func_state, row, locations, locations_by_filename,
  nrows, nunits, files,
  \* history: some row was discarded in state Ignored (main.rs 122-127)
  ignored

path_vars == <<path, p2, npush>>
scan_vars == <<src, reader, scan_pc, code_section_offset, sections, scan_result,
               module, nsections>>
res_vars  == <<pc, lang, func_state, row, locations, locations_by_filename,
               nrows, nunits, files, ignored>>
vars == <<path, p2, npush,
          src, reader, scan_pc, code_section_offset, sections, scan_result,
          module, nsections,
          pc, lang, func_state, row, locations, locations_by_filename,
          nrows, nunits, files, ignored>>

None == "None"

(***************************************************************************)
(* Bounds                                                                  *)
(***************************************************************************)
MaxSeedLen == 3
MaxFragLen == 3
MaxPush == 2
MaxRows == 2
MaxUnits == 2
MaxSections == 2

(***************************************************************************)
(* Generic string helpers (std::str)                                       *)
(***************************************************************************)
RECURSIVE SeqsUpTo(_, _)
SeqsUpTo(S, n) ==
  IF n = 0 THEN {<<>>}
  ELSE LET shorter == SeqsUpTo(S, n - 1)
       IN  shorter \cup {Append(s, c) : s \in {t \in shorter : Len(t) = n - 1}, c \in S}

StartsWith(s, pat) ==
  Len(s) >= Len(pat) /\ SubSeq(s, 1, Len(pat)) = pat

EndsWith(s, pat) ==
  Len(s) >= Len(pat) /\ SubSeq(s, Len(s) - Len(pat) + 1, Len(s)) = pat

Contains(s, pat) ==
  \E i \in 1..(Len(s) - Len(pat) + 1) : SubSeq(s, i, i + Len(pat) - 1) = pat

\* str::replace: leftmost, non-overlapping matches, scanning left to right
RECURSIVE Replace(_, _, _)
Replace(s, pat, rep) ==
  IF Len(s) < Len(pat) THEN s
  ELSE IF SubSeq(s, 1, Len(pat)) = pat
       THEN rep \o Replace(SubSeq(s, Len(pat) + 1, Len(s)), pat, rep)
       ELSE <<Head(s)>> \o Replace(Tail(s), pat, rep)

BSlash == "\\"
Slash == "/"

(***************************************************************************)
(* path.rs                                                                 *)
(***************************************************************************)
\* Path::new
PathNew(s) ==
  Replace(Replace(s, <<BSlash, BSlash>>, <<Slash>>), <<BSlash>>, <<Slash>>)

\* variant: the separator is pushed whatever the path ends with
PathPushAlwaysSeparator(p1, f) ==
  IF StartsWith(f, <<Slash>>) \/ Contains(f, <<":", Slash, Slash>>)
  THEN f
  ELSE Append(p1, Slash) \o f

\* Path::push
PathPush(p1, f) ==
  IF StartsWith(f, <<Slash>>) \/ Contains(f, <<":", Slash, Slash>>)
  THEN f
  ELSE (IF ~EndsWith(p1, <<Slash>>) THEN Append(p1, Slash) ELSE p1) \o f

PathChars == {Slash, BSlash, ":"}
Seeds == SeqsUpTo(PathChars, MaxSeedLen)
Fragments == SeqsUpTo(PathChars, MaxFragLen)

\* Idle values of the parts a specification does not exercise
IdlePath == path = <<>> /\ p2 = <<>> /\ npush = 0
NoModule == [magic |-> <<>>, version |-> <<>>, secs |-> <<>>, tail |-> <<>>]
Result(kind, version, err) == [kind |-> kind, version |-> version, err |-> err]
NoResult == Result("None", 0, "")
IdleScan ==
  /\ src = <<>> /\ reader = <<>> /\ scan_pc = "idle"
  /\ code_section_offset = <<>> /\ sections = {} /\ scan_result = NoResult
  /\ module = NoModule /\ nsections = 0
IdleRes ==
  /\ pc = "idle" /\ lang = 0 /\ func_state = "Start" /\ row = <<>>
  /\ locations = <<>> /\ locations_by_filename = <<>>
  /\ nrows = 0 /\ nunits = 0 /\ files = None /\ ignored = FALSE

(***************************************************************************)
(* SpecPath: a Path is constructed from a seed, then fragments are pushed  *)
(***************************************************************************)
InitPath ==
  /\ \E s \in Seeds : path = PathNew(s)
  /\ p2 = <<>>
  /\ npush = 0
  /\ IdleScan /\ IdleRes

Push(f) ==
  /\ npush < MaxPush
  /\ path' = PathPush(path, f)
  /\ p2' = f
  /\ npush' = npush + 1
  /\ UNCHANGED <<scan_vars, res_vars>>

NextPath == \E f \in Fragments : Push(f)

SpecPath == InitPath /\ [][NextPath]_vars

\* C7 as stated: every string produced by Path::new and any pushes is a
\* fixed point of Path::new.
C7_Original == PathNew(path) = path

\* What the code does keep: a freshly constructed path is a fixed point of
\* Path::new, and pushing a fragment without a backslash keeps it one.
PushKeepsNormalised ==
  /\ (npush = 0 => PathNew(path) = path)
  /\ [][(PathNew(path) = path /\ ~Contains(p2', <<BSlash>>))
          => PathNew(path') = path']_vars

PushKeepsNormalisedWitness ==
  /\ npush >= 2
  /\ ~Contains(path, <<BSlash>>)
  /\ Len(p2) > 0
  /\ ~StartsWith(p2, <<Slash>>)
  /\ Len(path) > Len(p2) + 1
  /\ PathNew(path) = path

\* The examples of path.rs tests (test_path_unix, test_path_windows)
PathExamples ==
  /\ PathPush(PathPush(PathNew(<<"/", "e", "t", "c">>),
                       <<"p", "a", "s", "s", "w", "d">>),
              <<"/", "e", "t", "c", "/", "h", "o", "s", "t", "s">>)
       = <<"/", "e", "t", "c", "/", "h", "o", "s", "t", "s">>
  /\ PathPush(PathPush(PathNew(<<"C", ":", BSlash>>), <<"W", "i", "n">>),
              <<"S", "y", "s">>)
       = <<"C", ":", "/", "W", "i", "n", "/", "S", "y", "s">>

\* C8: push(f) yields f alone when f starts with '/' or contains '://';
\* otherwise the old path, one '/' unless it already ends with one, then f.
C8_PushSemantics ==
  [][/\ PathExamples
     /\ npush' = npush + 1 =>
          LET f == p2' IN
          IF f # <<>> /\ f[1] = Slash THEN path' = f
          ELSE IF \E i \in 1..(Len(f) - 2) :
                    f[i] = ":" /\ f[i + 1] = Slash /\ f[i + 2] = Slash
               THEN path' = f
          ELSE IF path # <<>> /\ path[Len(path)] = Slash
               THEN path' = path \o f
          ELSE /\ Len(path') = Len(path) + 1 + Len(f)
               /\ SubSeq(path', 1, Len(path)) = path
               /\ path'[Len(path) + 1] = Slash
               /\ SubSeq(path', Len(path) + 2, Len(path')) = f]_vars

C8_Witness ==
  /\ npush >= 2
  /\ ~StartsWith(p2, <<Slash>>)
  /\ ~Contains(p2, <<":", Slash, Slash>>)
  /\ Len(p2) > 0
  /\ Len(path) > Len(p2) + 1
  /\ path[Len(path) - Len(p2)] = Slash
  /\ path[Len(path) - Len(p2) - 1] # Slash

(***************************************************************************)
(* wasm.rs: the section scanner, and the section loop of Resolver::new     *)
(***************************************************************************)
\* Result of a read: the value and the reader left, or the gimli error
Ok(val, rest) == [ok |-> TRUE, val |-> val, rest |-> rest, err |-> ""]
Err(e) == [ok |-> FALSE, val |-> 0, rest |-> <<>>, err |-> e]

\* Reader::read_uleb128
RECURSIVE Uleb128(_, _, _)
Uleb128(r, shift, result) ==
  IF r = <<>> THEN Err("UnexpectedEof")
  ELSE LET byte == Head(r) IN
       IF shift = 63 /\ byte # 0 /\ byte # 1 THEN Err("BadUnsignedLeb128")
       ELSE LET value == result + (byte % 128) * (2 ^ shift) IN
            IF byte < 128 THEN Ok(value, Tail(r))
            ELSE Uleb128(Tail(r), shift + 7, value)
ReadUleb128(r) == Uleb128(r, 0, 0)

\* Reader::split
Split(r, len) ==
  IF len > Len(r) THEN Err("UnexpectedEof")
  ELSE Ok(SubSeq(r, 1, len), SubSeq(r, len + 1, Len(r)))

\* variant: the four bytes are read big-endian
ReadU32BigEndian(r) ==
  IF Len(r) < 4 THEN Err("UnexpectedEof")
  ELSE Ok(r[4] + 256 * r[3] + 65536 * r[2] + 16777216 * r[1],
          SubSeq(r, 5, Len(r)))

\* Reader::read_u32 of a little-endian reader
ReadU32(r) ==
  IF Len(r) < 4 THEN Err("UnexpectedEof")
  ELSE Ok(r[1] + 256 * r[2] + 65536 * r[3] + 16777216 * r[4],
          SubSeq(r, 5, Len(r)))

\* Reader::read_u8_array::<[u8; 4]>
ReadU8Array4(r) ==
  IF Len(r) < 4 THEN Err("UnexpectedEof")
  ELSE Ok(SubSeq(r, 1, 4), SubSeq(r, 5, Len(r)))

\* Reader::to_string: the bytes must be UTF-8. The modules below hold no
\* UTF-8 lead byte (0xC2..0xF4), so a byte above 0x7F is never valid.
ReaderToString(r) ==
  IF \A i \in 1..Len(r) : r[i] < 128 THEN Ok(r, <<>>) ELSE Err("BadUtf8")

WasmMagic == <<0, 97, 115, 109>>
DebugPrefix == <<46, 100, 101, 98, 117, 103, 95>>

Section(kind, id, name, payload, offset, rest) ==
  [ok |-> TRUE, end |-> FALSE, kind |-> kind, id |-> id, name |-> name,
   payload |-> payload, offset |-> offset, rest |-> rest, err |-> ""]
NoSection == Section("", 0, <<>>, <<>>, 0, <<>>)
SectionErr(e) == [NoSection EXCEPT !.ok = FALSE, !.err = e]

\* parse_sections::Iterator::next (wasm.rs 70-99); offset is the payload's
\* offset_from the whole module (main.rs 65)
IteratorNext(r, whole) ==
  IF r = <<>> THEN [NoSection EXCEPT !.end = TRUE]
  ELSE LET id == ReadUleb128(r) IN
  IF ~id.ok THEN SectionErr(id.err)
  ELSE IF id.val > 255 THEN SectionErr("BadUnsignedLeb128")
  ELSE LET payload_len == ReadUleb128(id.rest) IN
  IF ~payload_len.ok THEN SectionErr(payload_len.err)
  ELSE LET payload_reader == Split(payload_len.rest, payload_len.val) IN
  IF ~payload_reader.ok THEN SectionErr(payload_reader.err)
  ELSE IF id.val = 0
  THEN LET name_len == ReadUleb128(payload_reader.val) IN
       IF ~name_len.ok THEN SectionErr(name_len.err)
       ELSE LET name_reader == Split(name_len.rest, name_len.val) IN
       IF ~name_reader.ok THEN SectionErr(name_reader.err)
       ELSE LET name == ReaderToString(name_reader.val) IN
       IF ~name.ok THEN SectionErr(name.err)
       ELSE Section("Custom", 0, name.val, name_reader.rest,
                    Len(whole) - Len(name_reader.rest) - Len(payload_reader.rest),
                    payload_reader.rest)
  ELSE Section("Standard", id.val, <<>>, payload_reader.val,
               Len(whole) - Len(payload_len.rest), payload_reader.rest)

\* variant: the id of the type section is taken for the code section's
IsCodeSectionTypeId(id) == id = 1

\* main.rs 64
IsCodeSection(id) == id = 10

\* The modules scanned: a header, well-formed sections, and a tail that is
\* empty or is not a section
MagicPool ==
  { WasmMagic, <<0, 97, 115, 110>>, <<1, 97, 115, 109>>, <<109, 115, 97, 0>>,
    <<0, 97>>, <<>> }
VersionPool ==
  { <<1, 0, 0, 0>>, <<2, 0, 0, 0>>, <<0, 0, 0, 0>>, <<0, 0, 0, 1>>,
    <<1, 0, 0, 1>>, <<1, 0>> }
SectionPool ==
  { <<10, 0>>,                \* code section, empty
    <<10, 1, 0>>,             \* code section, one byte
    <<138, 0, 0>>,            \* code section, id 10 in two LEB128 bytes
    <<1, 1, 10>>,             \* type section whose payload is the byte 10
    <<0, 1, 0>>,              \* custom section with the empty name
    <<0, 2, 1, 97>>,          \* custom section "a"
    <<0, 10, 8, 46, 100, 101, 98, 117, 103, 95, 97, 7>> }  \* ".debug_a"
CodeSections == { <<10, 0>>, <<10, 1, 0>>, <<138, 0, 0>> }
TailPool ==
  { <<>>,
    <<1>>,                    \* no payload length
    <<1, 2, 0>>,              \* payload shorter than its length
    <<128>>,                  \* unterminated id
    <<128, 2, 0>>,            \* id 256
    <<0, 0>>,                 \* custom section without a name length
    <<0, 1, 5>>,              \* name longer than the payload
    <<0, 2, 1, 128>>,         \* name that is not UTF-8
    <<10, 3, 0>> }            \* code section shorter than its length

RECURSIVE Flatten(_)
Flatten(ss) == IF ss = <<>> THEN <<>> ELSE Head(ss) \o Flatten(Tail(ss))

Modules ==
  [magic : MagicPool, version : VersionPool,
   secs : SeqsUpTo(SectionPool, MaxSections), tail : TailPool]
Bytes(m) == m.magic \o m.version \o Flatten(m.secs) \o m.tail

InitScan ==
  /\ module \in Modules
  /\ src = Bytes(module)
  /\ reader = src
  /\ scan_pc = "header"
  /\ code_section_offset = <<>> /\ sections = {} /\ scan_result = NoResult
  /\ nsections = 0
  /\ IdlePath /\ IdleRes

\* parse_sections (wasm.rs 102-111) and the `?` of main.rs 55
ParseSections ==
  /\ scan_pc = "header"
  /\ LET magic == ReadU8Array4(reader) IN
     IF ~magic.ok
     THEN /\ scan_result' = Result("Reader", 0, magic.err)
          /\ scan_pc' = "done" /\ UNCHANGED reader
     ELSE IF magic.val # WasmMagic
     THEN /\ scan_result' = Result("InvalidMagic", 0, "")
          /\ scan_pc' = "done" /\ UNCHANGED reader
     ELSE LET version == ReadU32(magic.rest) IN
          IF ~version.ok
          THEN /\ scan_result' = Result("Reader", 0, version.err)
               /\ scan_pc' = "done" /\ UNCHANGED reader
          ELSE IF version.val # 1
          THEN /\ scan_result' = Result("UnsupportedVersion", version.val, "")
               /\ scan_pc' = "done" /\ UNCHANGED reader
          ELSE /\ reader' = version.rest
               /\ scan_pc' = "sections"
               /\ UNCHANGED scan_result
  /\ UNCHANGED <<src, code_section_offset, sections, module, nsections>>
  /\ UNCHANGED <<path_vars, res_vars>>

\* main.rs 55-69: one iteration of the section loop
ScanSection ==
  /\ scan_pc = "sections"
  /\ reader # <<>>
  /\ LET section == IteratorNext(reader, src) IN
     IF ~section.ok
     THEN /\ scan_result' = Result("Reader", 0, section.err)
          /\ scan_pc' = "done"
          /\ UNCHANGED <<reader, code_section_offset, sections, nsections>>
     ELSE /\ reader' = section.rest
          /\ nsections' = nsections + 1
          /\ sections' =
               IF section.kind = "Custom" /\ StartsWith(section.name, DebugPrefix)
               THEN {e \in sections : e.name # section.name}
                      \cup {[name |-> section.name, payload |-> section.payload]}
               ELSE sections
          /\ code_section_offset' =
               IF section.kind = "Standard" /\ IsCodeSection(section.id)
               THEN <<section.offset>>
               ELSE code_section_offset
          /\ UNCHANGED <<scan_pc, scan_result>>
  /\ UNCHANGED <<src, module>>
  /\ UNCHANGED <<path_vars, res_vars>>

\* main.rs 55, 71-82: the iterator is exhausted
FinishScan ==
  /\ scan_pc = "sections"
  /\ reader = <<>>
  /\ scan_pc' = "done"
  /\ IF code_section_offset = <<>>
     THEN /\ scan_result' = Result("MissingCodeSection", 0, "")
          /\ UNCHANGED res_vars
     ELSE /\ scan_result' = Result("Ok", 0, "")
          /\ pc' = "units"
          /\ UNCHANGED <<lang, func_state, row, locations, locations_by_filename,
                         nrows, nunits, files, ignored>>
  /\ UNCHANGED <<src, reader, code_section_offset, sections, module, nsections>>
  /\ UNCHANGED path_vars

NextScan == ParseSections \/ ScanSection \/ FinishScan

SpecScan == InitScan /\ [][NextScan]_vars

HeaderValid(m) == m.magic = WasmMagic /\ m.version = <<1, 0, 0, 0>>
NoCodeSection(m) ==
  /\ \A i \in 1..Len(m.secs) : m.secs[i] \notin CodeSections
  /\ m.tail # <<10, 3, 0>>
NoFileTable == pc = "idle" /\ locations_by_filename = <<>> /\ files = None

\* C1 as stated: a valid header and no section with id 10 give
\* MissingCodeSection and no file table, whatever follows the header.
C1_AnySections ==
  (scan_pc = "done" /\ HeaderValid(module) /\ NoCodeSection(module))
    => (scan_result.kind = "MissingCodeSection" /\ NoFileTable)

\* C1 (amended): a valid header followed by well-formed sections only, none
\* of them with id 10, gives MissingCodeSection and no file table.
C1_MissingCodeSection ==
  (scan_pc = "done" /\ HeaderValid(module) /\ NoCodeSection(module)
     /\ module.tail = <<>>)
    => (scan_result.kind = "MissingCodeSection" /\ NoFileTable)

C1_Witness ==
  /\ scan_pc = "done"
  /\ HeaderValid(module) /\ NoCodeSection(module) /\ module.tail = <<>>
  /\ nsections >= 2
  /\ sections # {}
  /\ \E i \in 1..Len(module.secs) : module.secs[i] = <<1, 1, 10>>
  /\ scan_result.kind = "MissingCodeSection"

\* C9: four first bytes other than the magic give InvalidMagic; the magic
\* followed by four bytes that are not 1 as a little-endian u32 give
\* UnsupportedVersion with that value; no section is read in either case.
C9_HeaderErrors ==
  scan_pc \notin {"idle", "header"} =>
    /\ (Len(src) >= 4 /\ SubSeq(src, 1, 4) # WasmMagic)
         => /\ scan_result = Result("InvalidMagic", 0, "")
            /\ scan_pc = "done" /\ nsections = 0 /\ reader = src
            /\ sections = {} /\ code_section_offset = <<>>
    /\ (Len(src) >= 8 /\ SubSeq(src, 1, 4) = WasmMagic
          /\ src[5] + 256 * (src[6] + 256 * (src[7] + 256 * src[8])) # 1)
         => /\ scan_result.kind = "UnsupportedVersion"
            /\ scan_result.version
                 = src[5] + 256 * (src[6] + 256 * (src[7] + 256 * src[8]))
            /\ scan_pc = "done" /\ nsections = 0 /\ reader = src
            /\ sections = {} /\ code_section_offset = <<>>

\* the version bytes 00 00 00 01 are reported as 16777216
C9_Witness ==
  /\ scan_pc = "done"
  /\ Len(src) > 8
  /\ SubSeq(src, 5, 8) = <<0, 0, 0, 1>>
  /\ scan_result = Result("UnsupportedVersion", 16777216, "")

\* The pools are what they are meant to be: every section of SectionPool is
\* read whole, no tail of TailPool is read as a section.
PoolsSound ==
  scan_pc = "done" /\ HeaderValid(module) =>
    /\ module.tail = <<>> => /\ nsections = Len(module.secs)
                            /\ scan_result.kind \in {"Ok", "MissingCodeSection"}
    /\ module.tail # <<>> => /\ nsections = Len(module.secs)
                            /\ scan_result.kind = "Reader"

(***************************************************************************)
(* main.rs: the line table resolver                                        *)
(***************************************************************************)
DW_LANG_Rust == 28
DW_LANG_C99 == 12
LeftEdge == 0

Langs == {DW_LANG_Rust, DW_LANG_C99}
CodeOffsets == {10}
Addresses == {0, 1, 2}
\* row.line(): 0 stands for None
Lines == {0, 1, 2}
\* row.column(): 0 is ColumnType::LeftEdge, c > 0 is ColumnType::Column(c)
Columns == {LeftEdge, 2}
\* The file table of the line program header; an Option is a sequence of
\* length 0 (None) or 1 (Some). row.file(header) is None for an index the
\* table does not have.
FileTable ==
  <<[directory |-> <<>>, path_name |-> <<"a">>],
    [directory |-> <<<<"s", BSlash>>>>, path_name |-> <<"b">>]>>
FileIndexes == 0..Len(FileTable)
RowFile(r) == IF r.file \in 1..Len(FileTable) THEN <<FileTable[r.file]>> ELSE <<>>
Rows ==
  [address : Addresses, line : Lines, column : Columns,
   end_sequence : BOOLEAN, file : FileIndexes]

\* derive(PartialOrd, Ord) for Pos: line first, then column
PosLess(a, b) == a.line < b.line \/ (a.line = b.line /\ a.column < b.column)

\* variant: the column stays 1-based
ColumnOneBased(c, is_rust) ==
  IF c = LeftEdge THEN 0
  ELSE IF is_rust THEN c + 1 ELSE c

\* main.rs 140-152
Column(c, is_rust) ==
  IF c = LeftEdge THEN 0
  ELSE LET column == c - 1
       IN  IF is_rust THEN column + 1 ELSE column

\* main.rs 159-170
Dest(file) ==
  LET seed == IF file.directory # <<>> THEN PathNew(file.directory[1])
              ELSE PathNew(<<".">>)
  IN  PathPush(seed, file.path_name)

\* main.rs 172-178, 186: IndexMap entry + push, insertion order kept
FileIndex(map, key) == {i \in 1..Len(map) : map[i].key = key}
PushFile(map, key, language, loc) ==
  IF FileIndex(map, key) # {}
  THEN LET i == CHOOSE j \in FileIndex(map, key) : TRUE
       IN  [map EXCEPT ![i].entries = Append(@, loc)]
  ELSE Append(map, [key |-> key, language |-> language, entries |-> <<loc>>])

\* variant: an unstable sort, an entry goes before the entries with its key
RECURSIVE InsertByAddrUnstable(_, _)
InsertByAddrUnstable(sorted, e) ==
  IF sorted = <<>> THEN <<e>>
  ELSE IF Head(sorted).addr < e.addr
       THEN <<Head(sorted)>> \o InsertByAddrUnstable(Tail(sorted), e)
       ELSE <<e>> \o sorted

\* slice::sort_by_key is stable: an entry goes after the entries whose key
\* is not greater
RECURSIVE InsertByAddr(_, _)
InsertByAddr(sorted, e) ==
  IF sorted = <<>> THEN <<e>>
  ELSE IF Head(sorted).addr <= e.addr
       THEN <<Head(sorted)>> \o InsertByAddr(Tail(sorted), e)
       ELSE <<e>> \o sorted

RECURSIVE SortByAddr(_)
SortByAddr(s) ==
  IF s = <<>> THEN <<>>
  ELSE InsertByAddr(SortByAddr(SubSeq(s, 1, Len(s) - 1)), s[Len(s)])

RECURSIVE InsertByPos(_, _)
InsertByPos(sorted, e) ==
  IF sorted = <<>> THEN <<e>>
  ELSE IF ~PosLess(e.pos, Head(sorted).pos)
       THEN <<Head(sorted)>> \o InsertByPos(Tail(sorted), e)
       ELSE <<e>> \o sorted

RECURSIVE SortByPos(_)
SortByPos(s) ==
  IF s = <<>> THEN <<>>
  ELSE InsertByPos(SortByPos(SubSeq(s, 1, Len(s) - 1)), s[Len(s)])

\* Vec::dedup_by_key: of consecutive entries with equal keys the first stays
RECURSIVE DedupByAddr(_)
DedupByAddr(s) ==
  IF Len(s) <= 1 THEN s
  ELSE IF s[1].addr = s[2].addr
       THEN DedupByAddr(<<s[1]>> \o SubSeq(s, 3, Len(s)))
       ELSE <<s[1]>> \o DedupByAddr(Tail(s))

\* variant: Vec::dedup, which drops only entries equal in address too
RECURSIVE DedupWhole(_)
DedupWhole(s) ==
  IF Len(s) <= 1 THEN s
  ELSE IF s[1] = s[2]
       THEN DedupWhole(<<s[1]>> \o SubSeq(s, 3, Len(s)))
       ELSE <<s[1]>> \o DedupWhole(Tail(s))

RECURSIVE DedupByPos(_)
DedupByPos(s) ==
  IF Len(s) <= 1 THEN s
  ELSE IF s[1].pos = s[2].pos
       THEN DedupByPos(<<s[1]>> \o SubSeq(s, 3, Len(s)))
       ELSE <<s[1]>> \o DedupByPos(Tail(s))

\* main.rs 197-201
SortFileEntries(map) ==
  [i \in 1..Len(map) |->
     [map[i] EXCEPT !.entries = DedupByPos(SortByPos(@))]]

\* variant: line and column change places in the triple
SourceFilesSwapped(map) ==
  [i \in 1..Len(map) |->
     [file |-> map[i].key,
      language |-> map[i].language,
      lines |-> [j \in 1..Len(map[i].entries) |->
                   <<map[i].entries[j].addr,
                     map[i].entries[j].pos.column,
                     map[i].entries[j].pos.line>>]]]

\* main.rs 206-226
SourceFilesOf(map) ==
  [i \in 1..Len(map) |->
     [file |-> map[i].key,
      language |-> map[i].language,
      lines |-> [j \in 1..Len(map[i].entries) |->
                   <<map[i].entries[j].addr,
                     map[i].entries[j].pos.line,
                     map[i].entries[j].pos.column>>]]]

\* State once the section scan has succeeded (main.rs 71-82)
Init ==
  /\ IdlePath
  /\ src = <<>> /\ reader = <<>> /\ scan_pc = "done"
  /\ sections = {} /\ scan_result = Result("Ok", 0, "")
  /\ module = NoModule /\ nsections = 0
  /\ \E offset \in CodeOffsets : code_section_offset = <<offset>>
  /\ pc = "units" /\ lang = 0 /\ func_state = "Start" /\ row = <<>>
  /\ locations = <<>> /\ locations_by_filename = <<>>
  /\ nrows = 0 /\ nunits = 0 /\ files = None /\ ignored = FALSE

\* The Resolver is dropped when new() returns Err
Abort(outcome) ==
  /\ pc' = outcome
  /\ locations' = <<>>
  /\ locations_by_filename' = <<>>
  /\ func_state' = "Start"
  /\ lang' = 0
  /\ row' = <<>>
  /\ UNCHANGED <<nrows, nunits, files, ignored>>

\* main.rs 86-111: the next unit of dwarf.units()
NextUnit(l, has_line_program) ==
  /\ pc = "units"
  /\ nunits < MaxUnits
  /\ nunits' = nunits + 1
  /\ IF has_line_program
     THEN /\ lang' = l
          /\ func_state' = "Start"
          /\ pc' = "rows"
     ELSE UNCHANGED <<lang, func_state, pc>>
  /\ UNCHANGED <<row, locations, locations_by_filename, nrows, files, ignored>>
  /\ UNCHANGED <<path_vars, scan_vars>>

\* variant: the address test is inverted
EnterStateInverted(state, r) ==
  IF state = "Start"
  THEN (IF r.address # 0 THEN "Ignored" ELSE "Normal")
  ELSE state

\* main.rs 114-120
EnterState(state, r) ==
  IF state = "Start"
  THEN (IF r.address = 0 THEN "Ignored" ELSE "Normal")
  ELSE state

\* main.rs 113-191: one iteration of the row loop. The conversions to u32 of
\* lines 136 and 149 succeed for every row of Rows.
NextRow(r) ==
  /\ pc = "rows"
  /\ nrows < MaxRows
  /\ nrows' = nrows + 1
  /\ LET is_rust == lang = DW_LANG_Rust
         state == EnterState(func_state, r)
     IN  IF state = "Ignored"
         THEN /\ func_state' = IF r.end_sequence THEN "Start" ELSE "Ignored"
              /\ row' = <<r>>
              /\ ignored' = TRUE
              /\ UNCHANGED <<pc, lang, locations, locations_by_filename>>
         ELSE IF RowFile(r) = <<>> \/ r.line = 0
         THEN /\ func_state' = state
              /\ row' = <<r>>
              /\ UNCHANGED <<pc, lang, locations, locations_by_filename, ignored>>
         ELSE LET pos == [line |-> r.line - 1,
                          column |-> Column(r.column, is_rust)]
                  loc == [addr |-> code_section_offset[1] + r.address, pos |-> pos]
              IN  /\ locations' = Append(locations, loc)
                  /\ locations_by_filename' =
                       PushFile(locations_by_filename, Dest(RowFile(r)[1]), lang, loc)
                  /\ func_state' = IF r.end_sequence THEN "Start" ELSE state
                  /\ row' = <<r>>
                  /\ UNCHANGED <<pc, lang, ignored>>
  /\ UNCHANGED <<nunits, files>>
  /\ UNCHANGED <<path_vars, scan_vars>>

\* main.rs 113: rows.next_row() returns None
EndRows ==
  /\ pc = "rows"
  /\ pc' = "units"
  /\ UNCHANGED <<lang, func_state, row, locations, locations_by_filename,
                 nrows, nunits, files, ignored>>
  /\ UNCHANGED <<path_vars, scan_vars>>

\* main.rs 86-113: a `?` on a decoding error of the DWARF reader
DecodeError ==
  /\ pc \in {"units", "rows"}
  /\ Abort("failed")
  /\ UNCHANGED <<path_vars, scan_vars>>

\* main.rs 194-203: dwarf.units() is exhausted, the post-pass runs
PostPass ==
  /\ pc = "units"
  /\ locations' = DedupByAddr(SortByAddr(locations))
  /\ locations_by_filename' = SortFileEntries(locations_by_filename)
  /\ pc' = "sorted"
  /\ UNCHANGED <<lang, func_state, row, nrows, nunits, files, ignored>>
  /\ UNCHANGED <<path_vars, scan_vars>>

\* main.rs 206-226
SourceFiles ==
  /\ pc = "sorted"
  /\ files' = SourceFilesOf(locations_by_filename)
  /\ pc' = "done"
  /\ UNCHANGED <<lang, func_state, row, locations, locations_by_filename,
                 nrows, nunits, ignored>>
  /\ UNCHANGED <<path_vars, scan_vars>>

Next ==
  \/ \E l \in Langs, has_line_program \in BOOLEAN : NextUnit(l, has_line_program)
  \/ \E r \in Rows : NextRow(r)
  \/ EndRows
  \/ DecodeError
  \/ PostPass
  \/ SourceFiles

Spec == Init /\ [][Next]_vars

(***************************************************************************)
(* Properties of the resolver                                              *)
(***************************************************************************)
RowRead == nrows' = nrows + 1 /\ row' # <<>>
Recordable(r) == RowFile(r) # <<>> /\ r.line # 0
LastLoc(s) == s[Len(s)]
PostPassed == pc \in {"sorted", "done"}

\* C2: a sequence whose first row, met in state Start, has address 0 leaves
\* both tables untouched up to and including its end_sequence row, which
\* returns the state to Start; in a sequence entered with a non-zero address
\* the rows that carry a file and a line are appended to both tables.
C2_IgnoredSequence ==
  [][RowRead =>
       LET r == row'[1] IN
       /\ (func_state = "Ignored" \/ (func_state = "Start" /\ r.address = 0))
            => /\ locations' = locations
               /\ locations_by_filename' = locations_by_filename
               /\ func_state' = IF r.end_sequence THEN "Start" ELSE "Ignored"
       /\ ((func_state = "Normal" \/ (func_state = "Start" /\ r.address # 0))
             /\ Recordable(r))
            => /\ Len(locations') = Len(locations) + 1
               /\ LastLoc(locations').addr = code_section_offset[1] + r.address
               /\ \E i \in 1..Len(locations_by_filename') :
                    /\ locations_by_filename'[i].entries # <<>>
                    /\ LastLoc(locations_by_filename'[i].entries)
                         = LastLoc(locations')
                    /\ \/ i > Len(locations_by_filename)
                       \/ Len(locations_by_filename'[i].entries)
                            = Len(locations_by_filename[i].entries) + 1]_vars

\* the end_sequence row of an ignored sequence, itself with a non-zero address,
\* a file and a line, was dropped and the walk is back in Start
C2_Witness ==
  /\ pc = "rows"
  /\ nrows >= 2
  /\ row # <<>>
  /\ func_state = "Start"
  /\ row[1].end_sequence
  /\ row[1].address # 0
  /\ Recordable(row[1])
  /\ ignored
  /\ locations = <<>>

\* C10 as stated: an end_sequence row read in state Normal always returns the
\* walk to Start, also when the row has no line or no file entry.
C10_NormalEndSequence ==
  [][RowRead =>
       LET r == row'[1] IN
       ((func_state = "Normal" \/ (func_state = "Start" /\ r.address # 0))
          /\ r.end_sequence)
         => func_state' = "Start"]_vars

StrictlyIncreasingAddr(s) ==
  \A i \in 1..(Len(s) - 1) : s[i].addr < s[i + 1].addr
StrictlyIncreasingPos(s) ==
  \A i \in 1..(Len(s) - 1) : PosLess(s[i].pos, s[i + 1].pos)

\* C3: after the post-pass the global table is strictly increasing by address
\* (sorted, each address once), every recorded address is still present, and
\* the survivor of an address is the entry pushed first with that address.
C3_GlobalTable ==
  /\ [](PostPassed => StrictlyIncreasingAddr(locations))
  /\ [][(pc = "units" /\ pc' = "sorted") =>
          /\ \A j \in 1..Len(locations) :
               \E i \in 1..Len(locations') : locations'[i].addr = locations[j].addr
          /\ \A i \in 1..Len(locations') :
               \E j \in 1..Len(locations) :
                 /\ locations[j] = locations'[i]
                 /\ \A k \in 1..(j - 1) : locations[k].addr # locations[j].addr]_vars

\* two rows with one address and different positions went in, one came out
C3_Witness ==
  /\ pc = "sorted"
  /\ Len(locations) >= 1
  /\ \E i \in 1..Len(locations_by_filename) :
       /\ Len(locations_by_filename[i].entries) > Len(locations)
       /\ \A j \in 1..Len(locations_by_filename[i].entries) :
            locations_by_filename[i].entries[j].addr = locations[1].addr

\* C4: after the post-pass every file's table is strictly increasing by
\* (line, column): sorted, and no (line, column) pair twice.
C4_FileTables ==
  PostPassed =>
    \A i \in 1..Len(locations_by_filename) :
      StrictlyIncreasingPos(locations_by_filename[i].entries)

\* two addresses at one position of one file: the file keeps one entry
C4_Witness ==
  /\ pc = "sorted"
  /\ Len(locations) = 2
  /\ Len(locations_by_filename) = 1
  /\ Len(locations_by_filename[1].entries) = 1

OneFileNoIgnored ==
  pc = "done" /\ ~ignored /\ Len(locations_by_filename) = 1

\* C5 as stated: with one source file and no ignored sequence the output has
\* one file entry whose lines have strictly increasing addresses.
C5_AddressOrdered ==
  OneFileNoIgnored =>
    /\ Len(files) = 1
    /\ \A j \in 1..(Len(files[1].lines) - 1) :
         files[1].lines[j][1] < files[1].lines[j + 1][1]

\* C5 (amended): with one source file and no ignored sequence the output has
\* one file entry, named by the file's key, whose lines are strictly
\* increasing by (line, column).
C5_PositionOrdered ==
  OneFileNoIgnored =>
    /\ Len(files) = 1
    /\ files[1].file = locations_by_filename[1].key
    /\ Len(files[1].lines) >= 1
    /\ \A j \in 1..(Len(files[1].lines) - 1) :
         \/ files[1].lines[j][2] < files[1].lines[j + 1][2]
         \/ /\ files[1].lines[j][2] = files[1].lines[j + 1][2]
            /\ files[1].lines[j][3] < files[1].lines[j + 1][3]

\* one file, nothing ignored, and the lines run against the address order
C5_Witness ==
  /\ OneFileNoIgnored
  /\ Len(files) = 1
  /\ Len(files[1].lines) >= 2
  /\ files[1].lines[1][1] > files[1].lines[2][1]

ZeroBasedColumn(c) == IF c = LeftEdge THEN 0 ELSE c - 1

\* C6 as stated: line and column are the reported ones minus 1 (column 0 for
\* the left edge), and 1 is added to the column of every row of a Rust unit.
C6_UniformCorrection ==
  [][(RowRead /\ Len(locations') = Len(locations) + 1) =>
       LET r == row'[1]
           pos == LastLoc(locations').pos
       IN  /\ pos.line = r.line - 1
           /\ pos.column = ZeroBasedColumn(r.column)
                             + (IF lang = DW_LANG_Rust THEN 1 ELSE 0)]_vars

\* C6 (amended): the line is the reported line minus 1; a numeric column c
\* gives c - 1, plus 1 exactly in a Rust unit; a left-edge row gives column 0
\* in every unit.
C6_ZeroBased ==
  [][(RowRead /\ Len(locations') = Len(locations) + 1) =>
       LET r == row'[1]
           pos == LastLoc(locations').pos
       IN  /\ pos.line = r.line - 1
           /\ pos.line >= 0 /\ pos.line < r.line
           /\ r.column = LeftEdge => pos.column = 0
           /\ r.column # LeftEdge =>
                /\ r.column - 1 >= 0 /\ r.column - 1 < r.column
                /\ lang = DW_LANG_Rust => pos.column = (r.column - 1) + 1
                /\ lang # DW_LANG_Rust => pos.column = r.column - 1]_vars

\* the only row read so far, line 2 column 2 of a C unit, recorded as (1, 1)
C6_Witness ==
  /\ pc = "rows"
  /\ nrows = 1
  /\ lang = DW_LANG_C99
  /\ Len(locations) = 1
  /\ row[1].line = 2 /\ row[1].column = 2
  /\ locations[1].pos = [line |-> 1, column |-> 1]

====
